---- MODULE Spec2Model ----
(***************************************************************************)
(* Model of src/src/coder/g3_v1_c.cpp: a static order-0 arithmetic coder   *)
(* (class ArithmeticEncoder) with its file format.                         *)
(*                                                                         *)
(* Numbers.  TLC's integers are 32-bit signed, the coder's registers are   *)
(* uint32_t and its intermediates uint64_t.  A register or intermediate is *)
(* therefore a tuple <<a, b, c, d>> of 16-bit limbs, most significant      *)
(* first, standing for ((a * 2^16 + b) * 2^16 + c) * 2^16 + d; arithmetic  *)
(* on it is modulo 2^64, and a uint32_t has a = b = 0.  Counts and sizes   *)
(* (uint64_t in the code) are plain integers: the model's inputs keep them *)
(* below 2^31.                                                             *)
(*                                                                         *)
(* Data.  The content of an uncompressed file is kept as its runs: the     *)
(* sequence of <<value, n>> for n >= 1 consecutive bytes equal to value,   *)
(* neighbouring runs having different values.  This lets the model hold    *)
(* the inputs of 2^30 bytes and more that the coder's precision is about.  *)
(* The content of a compressed file is a plain sequence of bytes.          *)
(*                                                                         *)
(* Memory.  decompress reserves its vectors from what the file declares    *)
(* (counts.reserve(symbol_count), decoded.reserve(original_size)); whether *)
(* that succeeds depends on the machine, so the bytes the allocator can    *)
(* give are an input of the call (heap), chosen by the environment.        *)
(***************************************************************************)
EXTENDS Integers, Sequences, FiniteSets, TLC

\* ------------------------------------------------------------------ bounds
\* Longest run, and largest number of runs, of the short inputs.
MaxLen == 3
\* Largest count, and longest table, given to buildSymbolsFromCounts directly.
MaxCount == 2
MaxTable == 2
\* The byte values inputs are drawn from.
Bytes == {0, 97, 255}

\* ------------------------------------------------------------ fixed width
Limb == 2^16

Zero == <<0, 0, 0, 0>>
One  == <<0, 0, 0, 1>>

Lt(a, b) == \E i \in 1..4 : a[i] < b[i] /\ \A j \in 1..(i - 1) : a[j] = b[j]
Le(a, b) == ~Lt(b, a)

\* static_cast<uint64_t>(n) of a count
Wide(n) == <<0, 0, n \div Limb, n % Limb>>

\* uint64_t a + b
AddW(a, b) ==
    LET s4 == a[4] + b[4]
        s3 == a[3] + b[3] + (s4 \div Limb)
        s2 == a[2] + b[2] + (s3 \div Limb)
        s1 == a[1] + b[1] + (s2 \div Limb)
    IN  <<s1 % Limb, s2 % Limb, s3 % Limb, s4 % Limb>>

\* uint64_t a - b
SubW(a, b) ==
    LET d4 == a[4] - b[4]
        d3 == a[3] - b[3] - (IF d4 < 0 THEN 1 ELSE 0)
        d2 == a[2] - b[2] - (IF d3 < 0 THEN 1 ELSE 0)
        d1 == a[1] - b[1] - (IF d2 < 0 THEN 1 ELSE 0)
    IN  <<(d1 + Limb) % Limb, (d2 + Limb) % Limb, (d3 + Limb) % Limb, (d4 + Limb) % Limb>>

\* uint64_t a * k for 0 <= k <= 2^15, limb by limb
MulSmall(a, k) ==
    LET p4 == a[4] * k
        p3 == a[3] * k + (p4 \div Limb)
        p2 == a[2] * k + (p3 \div Limb)
        p1 == a[1] * k + (p2 \div Limb)
    IN  <<p1 % Limb, p2 % Limb, p3 % Limb, p4 % Limb>>

\* uint64_t a * n for a count n, from the three 15-bit digits of n
MulW(a, n) ==
    IF n <= 2^15 THEN MulSmall(a, n)
    ELSE LET n0 == n % 2^15
             n1 == (n \div 2^15) % 2^15
             n2 == n \div 2^30
         IN  AddW(MulSmall(a, n0),
                  MulSmall(AddW(MulSmall(a, n1), MulSmall(MulSmall(a, n2), 2^15)), 2^15))

\* uint64_t a / k for 0 < k <= 2^15: schoolbook division, high limb first
DivSmall(a, k) ==
    LET x2 == (a[1] % k) * Limb + a[2]
        x3 == (x2 % k) * Limb + a[3]
        x4 == (x3 % k) * Limb + a[4]
    IN  <<a[1] \div k, x2 \div k, x3 \div k, x4 \div k>>

\* one limb of a long division by d: the quotient limb q and the remainder
\* of r, bit b first
RECURSIVE DivBits(_, _, _, _)
DivBits(r, d, b, q) ==
    IF b < 0 \/ Lt(r, d) THEN [q |-> q, r |-> r]
    ELSE LET t == MulSmall(d, 2^b)
         IN  IF Le(t, r) THEN DivBits(SubW(r, t), d, b - 1, q + 2^b)
             ELSE DivBits(r, d, b - 1, q)

\* the limbs i..4 of a long division by d, high limb first: r is the
\* remainder and q the quotient of the limbs before i
RECURSIVE DivLimbs(_, _, _, _, _)
RECURSIVE DivLimb(_, _, _, _, _)
DivLimbs(a, d, i, r, q) ==
    IF i > 4 THEN q
    ELSE DivLimb(a, d, i, q, DivBits(<<r[2], r[3], r[4], a[i]>>, d, 15, 0))

\* limb i of the quotient is step.q; the limbs after it
DivLimb(a, d, i, q, step) ==
    DivLimbs(a, d, i + 1, step.r, [q EXCEPT ![i] = step.q])

\* uint64_t a / d for 0 < d <= 2^32
DivW(a, d) == DivLimbs(a, d, 1, Zero, Zero)

\* uint64_t a / n for a count n > 0
DivCount(a, n) == IF n <= 2^15 THEN DivSmall(a, n) ELSE DivW(a, Wide(n))

\* static_cast<uint32_t>(w)
Cast32(w) == <<0, 0, w[3], w[4]>>

\* the cast loses nothing
Fits32(w) == w[1] = 0 /\ w[2] = 0

\* uint32_t a - b (wraps modulo 2^32)
Sub32(a, b) == Cast32(SubW(a, b))

\* uint32_t a << 1
Shl32(a) == Cast32(MulSmall(a, 2))

\* (a << 1) | bit
Shl32Or(a, bit) == LET s == Shl32(a) IN <<0, 0, s[3], s[4] + bit>>

\* w - 1 in uint64_t, then static_cast<uint32_t>: 0 - 1 wraps to all ones
Dec32(w) == Cast32(SubW(w, One))

\* ------------------------------------------------------------- constants
MAX_RANGE == <<0, 0, Limb - 1, Limb - 1>>
HALF      == <<0, 0, Limb \div 2, 0>>
FIRST_QTR == <<0, 0, Limb \div 4, 0>>
THIRD_QTR == <<0, 0, 3 * (Limb \div 4), 0>>


\* ------------------------------------------------------- Frequency Model
\* struct Symbol
Symbol(value, low, high, count) ==
    [value |-> value, low |-> low, high |-> high, count |-> count]

\* iteration order of std::map<unsigned char, long long>: ascending key
RECURSIVE Ascending(_)
Ascending(S) ==
    IF S = {} THEN <<>>
    ELSE LET m == CHOOSE x \in S : \A y \in S : x <= y
         IN  <<m>> \o Ascending(S \ {m})

\* data.size()
RECURSIVE Size(_)
Size(data) == IF data = <<>> THEN 0 ELSE Head(data)[2] + Size(Tail(data))

\* the number of bytes of data equal to value
RECURSIVE Occurrences(_, _)
Occurrences(data, value) ==
    IF data = <<>> THEN 0
    ELSE (IF Head(data)[1] = value THEN Head(data)[2] ELSE 0) + Occurrences(Tail(data), value)

\* (mutant) the frequency map losing its largest key
freqDropLast(data) ==
    LET keys == Ascending({data[i][1] : i \in DOMAIN data})
    IN  [k \in 1..(Len(keys) - 1) |-> <<keys[k], Occurrences(data, keys[k])>>]

\* freq[byte]++ over the data, as the (value, count) pairs the map iterates
freq(data) ==
    LET keys == Ascending({data[i][1] : i \in DOMAIN data})
    IN  [k \in 1..Len(keys) |-> <<keys[k], Occurrences(data, keys[k])>>]

\* (mutant) the push_back loop without cumulative += count
RECURSIVE PushSymbolsStale(_, _, _)
PushSymbolsStale(syms, cumulative, pairs) ==
    IF pairs = <<>> THEN [symbols |-> syms, cumulative |-> cumulative]
    ELSE LET p == Head(pairs)
         IN  PushSymbolsStale(Append(syms, Symbol(p[1], cumulative, cumulative + p[2], p[2])),
                              cumulative, Tail(pairs))

\* the push_back loop shared by both builders: each pair gets
\* {value, cumulative, cumulative + count, count}; cumulative += count
RECURSIVE PushSymbols(_, _, _)
PushSymbols(syms, cumulative, pairs) ==
    IF pairs = <<>> THEN [symbols |-> syms, cumulative |-> cumulative]
    ELSE LET p == Head(pairs)
         IN  PushSymbols(Append(syms, Symbol(p[1], cumulative, cumulative + p[2], p[2])),
                         cumulative + p[2], Tail(pairs))

\* (mutant) buildFrequencyTable without symbols.clear()
buildFrequencyTableKeep(old, data) ==
    [symbols |-> PushSymbols(old, 0, freq(data)).symbols, total_count |-> Size(data)]

\* buildFrequencyTable: old is the member `symbols` on entry
buildFrequencyTable(old, data) ==
    LET cleared == <<>>
        built   == PushSymbols(cleared, 0, freq(data))
    IN  [symbols |-> built.symbols, total_count |-> Size(data)]

\* buildSymbolsFromCounts: old is the member `symbols` on entry
buildSymbolsFromCounts(old, counts) ==
    LET cleared == <<>>
        built   == PushSymbols(cleared, 0, counts)
    IN  [symbols |-> built.symbols, total_count |-> built.cumulative]

\* std::find_if by value: index of the first entry, 0 for symbols.end()
FindByValue(syms, v) ==
    IF \E k \in DOMAIN syms : syms[k].value = v
    THEN CHOOSE k \in DOMAIN syms :
            syms[k].value = v /\ \A j \in 1..(k - 1) : syms[j].value # v
    ELSE 0

\* the entry decodeSymbol returns from: first with low <= cum < high, else 0
FindByCumulative(syms, cum) ==
    LET hit(k) == Le(Wide(syms[k].low), cum) /\ Lt(cum, Wide(syms[k].high))
    IN  IF \E k \in DOMAIN syms : hit(k)
        THEN CHOOSE k \in DOMAIN syms : hit(k) /\ \A j \in 1..(k - 1) : ~hit(j)
        ELSE 0

decodeSymbol(syms, cum) ==
    LET k == FindByCumulative(syms, cum)
    IN  IF k = 0 THEN 0 ELSE syms[k].value

\* ------------------------------------------------------ Bit Stream Adapter
NewWriter == [bytes |-> <<>>, current |-> 0, bits_filled |-> 0]

writeBit(w, bit) ==
    LET c == (w.current * 2 + (bit % 2)) % 256
    IN  IF w.bits_filled + 1 = 8
        THEN [bytes |-> Append(w.bytes, c), current |-> 0, bits_filled |-> 0]
        ELSE [bytes |-> w.bytes, current |-> c, bits_filled |-> w.bits_filled + 1]

\* n times writeBit(bit)
RECURSIVE writeBits(_, _, _)
writeBits(w, bit, n) ==
    IF n = 0 THEN w ELSE writeBits(writeBit(w, bit), bit, n - 1)

flush(w) ==
    IF w.bits_filled > 0
    THEN [bytes |-> Append(w.bytes, (w.current * 2^(8 - w.bits_filled)) % 256),
          current |-> 0, bits_filled |-> 0]
    ELSE w

NewReader == [index |-> 0, current |-> 0, bits_left |-> 0]

\* readBit: the bit returned and the reader afterwards
readBit(r, bytes) ==
    IF r.bits_left = 0 /\ r.index >= Len(bytes)
    THEN [bit |-> 0, reader |-> r]
    ELSE LET cur  == IF r.bits_left = 0 THEN bytes[r.index + 1] ELSE r.current
             idx  == IF r.bits_left = 0 THEN r.index + 1 ELSE r.index
             left == IF r.bits_left = 0 THEN 8 ELSE r.bits_left
         IN  [bit    |-> (cur \div 128) % 2,
              reader |-> [index |-> idx, current |-> (cur * 2) % 256,
                          bits_left |-> left - 1]]


\* ------------------------------------------------ Interval Arithmetic Engine
\* range = static_cast<uint64_t>(high - low) + 1
Range(low, high) == AddW(Sub32(high, low), One)

\* low + (range * bound) / total_count, in uint64_t
Scaled(low, range, bound, total) ==
    AddW(low, DivCount(MulW(range, bound), total))

\* (mutant) the upper bound without its - 1
NarrowHighNoDec(low, range, s, total) == Cast32(Scaled(low, range, s.high, total))

\* high = static_cast<uint32_t>(low + (range * it->high) / total_count - 1)
NarrowHigh(low, range, s, total) == Dec32(Scaled(low, range, s.high, total))

\* low = static_cast<uint32_t>(low + (range * it->low) / total_count)
NarrowLow(low, range, s, total) == Cast32(Scaled(low, range, s.low, total))

\* neither cast of the narrowing drops a bit: lo and hi are the two values
\* of Scaled
ExactBounds(lo, hi) ==
    /\ hi # Zero
    /\ Fits32(SubW(hi, One))
    /\ Fits32(lo)

\* the narrowing computes both bounds without any wrap: high - low does not
\* wrap, and neither cast drops a bit
NarrowExact(low, high, s, total) ==
    /\ Le(low, high)
    /\ ExactBounds(Scaled(low, Range(low, high), s.low, total),
                   Scaled(low, Range(low, high), s.high, total))

\* (mutant) the if-chain without its E3 arm
BranchNoE3(low, high) ==
    IF Lt(high, HALF) THEN "E1"
    ELSE IF Le(HALF, low) THEN "E2"
    ELSE "break"

\* which arm of the renormalization if-chain is taken
Branch(low, high) ==
    IF Lt(high, HALF) THEN "E1"
    ELSE IF Le(HALF, low) THEN "E2"
    ELSE IF Le(FIRST_QTR, low) /\ Lt(high, THIRD_QTR) THEN "E3"
    ELSE "break"

\* the amount the taken arm subtracts from the registers
Offset(branch) ==
    IF branch = "E2" THEN HALF ELSE IF branch = "E3" THEN FIRST_QTR ELSE Zero

\* register x goes through the arm's subtraction and the shift without wrap
RenormExact(x, branch) ==
    /\ Le(Offset(branch), x)
    /\ Fits32(MulW(SubW(x, Offset(branch)), 2))

\* ---- runs of equal symbols
\* low and high after the narrowing for symbol s
Narrowed(low, high, s, total) ==
    [low  |-> NarrowLow(low, Range(low, high), s, total),
     high |-> NarrowHigh(low, Range(low, high), s, total)]

\* the amounts by which a narrowing to n raises low and lowers high
AmountsTo(low, high, n) == [d1 |-> SubW(n.low, low), d2 |-> SubW(high, n.high)]

\* the amounts by which the narrowing for symbol s raises low and lowers
\* high
Amounts(low, high, s, total) ==
    AmountsTo(low, high, Narrowed(low, high, s, total))

\* low and high after j iterations each of which moves them by the amounts a
Moved(low, high, a, j) ==
    [low |-> AddW(low, MulW(a.d1, j)), high |-> SubW(high, MulW(a.d2, j))]

\* lo and hi, the two values of Scaled, make a narrowing of [low, high]
\* that does not wrap, moves low and high by the amounts a, and after which
\* for (;;) breaks at once
QuietBounds(low, high, lo, hi, a) ==
    /\ ExactBounds(lo, hi)
    /\ lo = AddW(low, a.d1)
    /\ SubW(hi, One) = SubW(high, a.d2)
    /\ Lt(lo, hi)
    /\ Branch(lo, SubW(hi, One)) = "break"

\* an iteration for symbol s is quiet and moves low and high by the amounts a
QuietBy(low, high, s, total, a) ==
    /\ Le(low, high)
    /\ QuietBounds(low, high,
                   Scaled(low, Range(low, high), s.low, total),
                   Scaled(low, Range(low, high), s.high, total), a)

\* an iteration for symbol s is quiet
QuietOne(low, high, s, total) ==
    QuietBy(low, high, s, total, Amounts(low, high, s, total))

\* an iteration for symbol s from the registers m is quiet and moves them
\* by the amounts a
QuietFrom(m, s, total, a) == QuietBy(m.low, m.high, s, total, a)

\* The first iteration for symbol s being quiet and moving low and high by
\* the amounts a, so are the next k - 1.  Quiet iterations only narrow
\* [low, high], and the amounts floor(range * s.low / total) and
\* range - floor(range * s.high / total) do not grow when range shrinks; so
\* it is enough that the k-th iteration is quiet and moves by the same
\* amounts: the iterations in between are then the same.
QuietUpTo(low, high, s, total, a, k) ==
    /\ Lt(MulW(AddW(a.d1, a.d2), k - 1), Range(low, high))
    /\ QuietFrom(Moved(low, high, a, k - 1), s, total, a)

\* the largest k in lo..hi with QuietUpTo(k), given QuietUpTo(lo) and not
\* QuietUpTo(hi)
RECURSIVE QuietBetween(_, _, _, _, _, _, _)
QuietBetween(low, high, s, total, a, lo, hi) ==
    IF hi - lo <= 1 THEN lo
    ELSE IF QuietUpTo(low, high, s, total, a, lo + (hi - lo) \div 2)
         THEN QuietBetween(low, high, s, total, a, lo + (hi - lo) \div 2, hi)
         ELSE QuietBetween(low, high, s, total, a, lo, lo + (hi - lo) \div 2)

\* how many of the next n iterations for symbol s are quiet and move low and
\* high by the amounts a
QuietCountBy(low, high, s, total, a, n) ==
    IF n < 1 \/ ~QuietBy(low, high, s, total, a) THEN 0
    ELSE IF QuietUpTo(low, high, s, total, a, n) THEN n
    ELSE QuietBetween(low, high, s, total, a, 1, n)

\* how many of the next n iterations for symbol s are quiet with the same
\* amounts (0 when the first one is not quiet)
QuietCount(low, high, s, total, n) ==
    QuietCountBy(low, high, s, total, Amounts(low, high, s, total), n)

\* low and high after k quiet iterations for symbol s
QuietMove(low, high, s, total, k) ==
    Moved(low, high, Amounts(low, high, s, total), k)

\* ---- encodeData
\* the byte of data at position i (from 0) and how many bytes from there on
\* to the end of its run
RECURSIVE RunAt(_, _)
RunAt(data, i) ==
    IF i < Head(data)[2] THEN [byte |-> Head(data)[1], left |-> Head(data)[2] - i]
    ELSE RunAt(Tail(data), i - Head(data)[2])

\* encoder registers at the start of encodeData
\* (i counts the bytes of data the range-for has consumed)
NewEncoder ==
    [low |-> Zero, high |-> MAX_RANGE, bits_to_follow |-> 0, writer |-> NewWriter,
     i |-> 0]

\* the narrowing of one symbol in encodeData
EncodeNarrow(e, s, total) ==
    LET range == Range(e.low, e.high)
    IN  [e EXCEPT !.high = NarrowHigh(e.low, range, s, total),
                  !.low  = NarrowLow(e.low, range, s, total)]

\* one iteration of the encoder's for (;;) that does not break
EncodeRenormStep(e) ==
    LET b   == Branch(e.low, e.high)
        w   == IF b = "E1" THEN writeBits(writeBit(e.writer, 0), 1, e.bits_to_follow)
               ELSE IF b = "E2" THEN writeBits(writeBit(e.writer, 1), 0, e.bits_to_follow)
               ELSE e.writer
        btf == IF b = "E3" THEN e.bits_to_follow + 1 ELSE 0
        lo  == Sub32(e.low, Offset(b))
        hi  == Sub32(e.high, Offset(b))
    IN  [e EXCEPT !.low = Shl32(lo), !.high = Shl32Or(hi, 1),
                  !.bits_to_follow = btf, !.writer = w]

\* the encoder's for (;;) until it breaks
RECURSIVE EncodeRenorm(_)
EncodeRenorm(e) ==
    IF Branch(e.low, e.high) = "break" THEN e ELSE EncodeRenorm(EncodeRenormStep(e))

\* the body of the encoder's loop over data for one byte
EncodeByte(e, byte, syms, total) ==
    LET it   == FindByValue(syms, byte)
        next == [e EXCEPT !.i = e.i + 1]
    IN  IF it = 0 THEN next
        ELSE EncodeRenorm(EncodeNarrow(next, syms[it], total))

\* the encoder with its registers moved to m, k bytes further in data
EncodeMoved(e, m, k) == [e EXCEPT !.low = m.low, !.high = m.high, !.i = e.i + k]

\* k quiet iterations of the encoder's loop over data for symbol s
EncodeQuiet(e, s, total, k) ==
    EncodeMoved(e, QuietMove(e.low, e.high, s, total, k), k)

\* how many of the next iterations of the encoder's loop, for the n equal
\* bytes that come next, are quiet with the same amounts (a single byte is
\* left to EncodeByte)
EncodeQuietCount(e, byte, n, syms, total) ==
    IF n < 2 \/ FindByValue(syms, byte) = 0 THEN 0
    ELSE QuietCount(e.low, e.high, syms[FindByValue(syms, byte)], total, n)

\* k > 0 quiet iterations of the encoder's loop over data, else one
\* iteration
EncodeChunk(e, byte, syms, total, k) ==
    IF k > 0 THEN EncodeQuiet(e, syms[FindByValue(syms, byte)], total, k)
    ELSE EncodeByte(e, byte, syms, total)

\* the next iterations of the encoder's loop over data, for the n >= 1 equal
\* bytes that come next: all the quiet ones there are, else one iteration
EncodeSome(e, byte, n, syms, total) ==
    EncodeChunk(e, byte, syms, total, EncodeQuietCount(e, byte, n, syms, total))

\* (mutant) the termination without the bits that follow the quarter bit
EncodeFinishBare(e) ==
    flush(IF Lt(e.low, FIRST_QTR) THEN writeBit(e.writer, 0) ELSE writeBit(e.writer, 1))

\* the termination bits and the flush
EncodeFinish(e) ==
    LET n == e.bits_to_follow + 1
        w == IF Lt(e.low, FIRST_QTR)
             THEN writeBits(writeBit(e.writer, 0), 1, n)
             ELSE writeBits(writeBit(e.writer, 1), 0, n)
    IN  flush(w)

\* for (unsigned char byte : data)
RECURSIVE EncodeAll(_, _, _, _)
EncodeAll(e, data, syms, total) ==
    IF e.i >= Size(data) THEN e
    ELSE EncodeAll(EncodeSome(e, RunAt(data, e.i).byte, RunAt(data, e.i).left,
                              syms, total),
                   data, syms, total)

\* encodeData: writer.bytes on return
encodeData(data, syms, total) ==
    EncodeFinish(EncodeAll(NewEncoder, data, syms, total)).bytes

\* ---- decodeData
\* value = (value << 1) | reader.readBit()
ShiftIn(d, bytes) ==
    LET rb == readBit(d.reader, bytes)
    IN  [d EXCEPT !.value = Shl32Or(d.value, rb.bit), !.reader = rb.reader]

\* n times ShiftIn
RECURSIVE ShiftInTimes(_, _, _)
ShiftInTimes(d, bytes, n) ==
    IF n = 0 THEN d ELSE ShiftIn(ShiftInTimes(d, bytes, n - 1), bytes)

\* decoder registers once the first 32 bits are read
\* (i is the counter of the loop over original_size)
NewDecoder(bytes) ==
    ShiftInTimes([low |-> Zero, high |-> MAX_RANGE, value |-> Zero,
                  reader |-> NewReader, output |-> <<>>, i |-> 0], bytes, 32)

\* output.push_back(value), k times
PushBack(output, value, k) ==
    IF output # <<>> /\ output[Len(output)][1] = value
    THEN [output EXCEPT ![Len(output)] = <<value, output[Len(output)][2] + k>>]
    ELSE Append(output, <<value, k>>)

\* cum = ((static_cast<uint64_t>(value - low) + 1) * total_count - 1) / range
Cum(low, high, value, total) ==
    DivW(SubW(MulW(AddW(Sub32(value, low), One), total), One),
         Range(low, high))

\* push_back of symbol_value and the narrowing for it in decodeData
DecodeNarrowFor(d, syms, total, symbol_value) ==
    LET range  == Range(d.low, d.high)
        it     == FindByValue(syms, symbol_value)
        pushed == [d EXCEPT !.output = PushBack(d.output, symbol_value, 1),
                            !.i = d.i + 1]
    IN  IF it = 0 THEN pushed
        ELSE [pushed EXCEPT !.high = NarrowHigh(d.low, range, syms[it], total),
                            !.low  = NarrowLow(d.low, range, syms[it], total)]

\* decodeSymbol, push_back and the narrowing for one symbol in decodeData
DecodeNarrow(d, syms, total) ==
    DecodeNarrowFor(d, syms, total,
                    decodeSymbol(syms, Cum(d.low, d.high, d.value, total)))

\* (mutant) the iteration leaving value where it is before the shift
DecodeRenormStepKeep(d, bytes) ==
    LET b  == Branch(d.low, d.high)
        rb == readBit(d.reader, bytes)
    IN  [d EXCEPT !.low    = Shl32(Sub32(d.low, Offset(b))),
                  !.high   = Shl32Or(Sub32(d.high, Offset(b)), 1),
                  !.value  = Shl32Or(d.value, rb.bit),
                  !.reader = rb.reader]

\* one iteration of the decoder's for (;;) that does not break
DecodeRenormStep(d, bytes) ==
    LET b  == Branch(d.low, d.high)
        rb == readBit(d.reader, bytes)
    IN  [d EXCEPT !.low    = Shl32(Sub32(d.low, Offset(b))),
                  !.high   = Shl32Or(Sub32(d.high, Offset(b)), 1),
                  !.value  = Shl32Or(Sub32(d.value, Offset(b)), rb.bit),
                  !.reader = rb.reader]

RECURSIVE DecodeRenorm(_, _)
DecodeRenorm(d, bytes) ==
    IF Branch(d.low, d.high) = "break" THEN d
    ELSE DecodeRenorm(DecodeRenormStep(d, bytes), bytes)

\* for (;;) after the narrowing that left n, unless the lookup by value
\* found nothing
DecodeRenormAfter(n, bytes, syms) ==
    IF FindByValue(syms, n.output[Len(n.output)][1]) = 0 THEN n
    ELSE DecodeRenorm(n, bytes)

\* the body of the decoder's loop over original_size for one symbol
DecodeOne(d, bytes, syms, total) ==
    DecodeRenormAfter(DecodeNarrow(d, syms, total), bytes, syms)

\* the index in syms of the symbol the decoder's next iteration decodes
\* (0: none)
DecodeIndex(d, syms, total) ==
    FindByValue(syms, decodeSymbol(syms, Cum(d.low, d.high, d.value, total)))

\* from the registers m the decoder decodes the symbol at index it
DecodesFrom(d, syms, total, it, m) ==
    /\ Le(m.low, d.value)
    /\ Le(d.value, m.high)
    /\ decodeSymbol(syms, Cum(m.low, m.high, d.value, total)) = syms[it].value

\* The first iteration of the decoder's loop decoding the symbol at index it,
\* quietly and moving low and high by the amounts a, so do the next k - 1.
\* value does not change in a quiet iteration, and the symbol decoded is the
\* one whose narrowed interval holds value; the intervals of the k
\* iterations are nested, so the iterations in between decode it as well.
DecodeQuietly(d, syms, total, it, a, k) ==
    /\ QuietUpTo(d.low, d.high, syms[it], total, a, k)
    /\ DecodesFrom(d, syms, total, it, Moved(d.low, d.high, a, k - 1))

\* the largest k in lo..hi with DecodeQuietly(k), given DecodeQuietly(lo) and
\* not DecodeQuietly(hi)
RECURSIVE DecodeQuietBetween(_, _, _, _, _, _, _)
DecodeQuietBetween(d, syms, total, it, a, lo, hi) ==
    IF hi - lo <= 1 THEN lo
    ELSE IF DecodeQuietly(d, syms, total, it, a, lo + (hi - lo) \div 2)
         THEN DecodeQuietBetween(d, syms, total, it, a, lo + (hi - lo) \div 2, hi)
         ELSE DecodeQuietBetween(d, syms, total, it, a, lo, lo + (hi - lo) \div 2)

\* how many of the next n iterations of the decoder's loop are quiet, decode
\* the symbol at index it and move low and high by the amounts a
DecodeQuietCountBy(d, syms, total, it, a, n) ==
    IF ~(Le(d.low, d.value) /\ Le(d.value, d.high)
         /\ QuietBy(d.low, d.high, syms[it], total, a)) THEN 0
    ELSE IF DecodeQuietly(d, syms, total, it, a, n) THEN n
    ELSE DecodeQuietBetween(d, syms, total, it, a, 1, n)

\* how many of the next n iterations of the decoder's loop are quiet and
\* decode the symbol at index it
DecodeQuietCountFor(d, syms, total, it, n) ==
    IF n < 1 \/ it = 0 THEN 0
    ELSE DecodeQuietCountBy(d, syms, total, it,
                            Amounts(d.low, d.high, syms[it], total), n)

\* how many of the next n iterations of the decoder's loop are quiet and
\* decode the same symbol
DecodeQuietCount(d, syms, total, n) ==
    DecodeQuietCountFor(d, syms, total, DecodeIndex(d, syms, total), n)

\* the decoder with its registers moved to m, having pushed back k times
\* the value of symbol s
DecodeMoved(d, s, m, k) ==
    [d EXCEPT !.low = m.low, !.high = m.high,
              !.output = PushBack(d.output, s.value, k), !.i = d.i + k]

\* k quiet iterations of the decoder's loop for symbol s
DecodeQuietFor(d, s, total, k) ==
    DecodeMoved(d, s, QuietMove(d.low, d.high, s, total, k), k)

\* k quiet iterations of the decoder's loop
DecodeQuiet(d, syms, total, k) ==
    DecodeQuietFor(d, syms[DecodeIndex(d, syms, total)], total, k)

\* k > 0 quiet iterations of the decoder's loop, else one iteration
DecodeChunk(d, bytes, syms, total, k) ==
    IF k > 0 THEN DecodeQuiet(d, syms, total, k)
    ELSE DecodeOne(d, bytes, syms, total)

\* the next iterations of the decoder's loop, n >= 1 being left: all the
\* quiet ones for one symbol there are, else one iteration
DecodeSome(d, bytes, syms, total, n) ==
    DecodeChunk(d, bytes, syms, total, DecodeQuietCount(d, syms, total, n))

\* (mutant) the decoding loop stopping one symbol early
RECURSIVE DecodeAllShort(_, _, _, _, _)
DecodeAllShort(d, bytes, syms, total, original_size) ==
    IF d.i + 1 >= original_size THEN d
    ELSE DecodeAllShort(DecodeSome(d, bytes, syms, total, original_size - 1 - d.i),
                        bytes, syms, total, original_size)

\* for (uint64_t i = 0; i < original_size; i++)
RECURSIVE DecodeAll(_, _, _, _, _)
DecodeAll(d, bytes, syms, total, original_size) ==
    IF d.i >= original_size THEN d
    ELSE DecodeAll(DecodeSome(d, bytes, syms, total, original_size - d.i),
                   bytes, syms, total, original_size)

\* decodeData: output on return
decodeData(bytes, syms, total, original_size) ==
    DecodeAll(NewDecoder(bytes), bytes, syms, total, original_size).output


\* ------------------------------------------------------------ file format
\* "ARIT"
MAGIC == <<65, 82, 73, 84>>

\* v as n big-endian bytes
RECURSIVE BigEndian(_, _)
BigEndian(v, n) ==
    IF n = 0 THEN <<>> ELSE Append(BigEndian(v \div 256, n - 1), v % 256)

writeUint64(v) == BigEndian(v, 8)
writeUint32(v) == BigEndian(v, 4)

\* n bytes read at offset pos (0-based) as a big-endian number; ok is FALSE
\* when in.get() returns EOF before the n-th byte ("Unexpected EOF")
RECURSIVE ReadBigEndian(_, _, _, _)
ReadBigEndian(file, pos, n, v) ==
    IF n = 0 THEN [ok |-> TRUE, v |-> v, pos |-> pos]
    ELSE IF pos >= Len(file) THEN [ok |-> FALSE, v |-> v, pos |-> pos]
    ELSE ReadBigEndian(file, pos + 1, n - 1, v * 256 + file[pos + 1])

readUint64(file, pos) == ReadBigEndian(file, pos, 8, 0)
readUint32(file, pos) == ReadBigEndian(file, pos, 4, 0)

\* the per-symbol part of the file: value, then count
RECURSIVE WriteTable(_)
WriteTable(syms) ==
    IF syms = <<>> THEN <<>>
    ELSE <<Head(syms).value>> \o writeUint64(Head(syms).count) \o WriteTable(Tail(syms))

\* the loop of decompress that reads symbol_count entries into counts
RECURSIVE ReadTable(_, _, _, _)
ReadTable(file, pos, n, counts) ==
    IF n = 0 THEN [ok |-> TRUE, counts |-> counts, pos |-> pos]
    ELSE IF pos >= Len(file) THEN [ok |-> FALSE, counts |-> counts, pos |-> pos]
    ELSE LET c == readUint64(file, pos + 1)
         IN  IF ~c.ok THEN [ok |-> FALSE, counts |-> counts, pos |-> c.pos]
             ELSE ReadTable(file, c.pos, n - 1, Append(counts, <<file[pos + 1], c.v>>))

\* (mutant) compressed_size without the 4 bytes of the symbol count
CompressedSizeShort(bytes, syms) == Len(bytes) + 4 + 8 + Len(syms) * (1 + 8)

\* compressed_size as compress computes it
CompressedSize(bytes, syms) == Len(bytes) + 4 + 8 + 4 + Len(syms) * (1 + 8)

\* stands for a compressed file that does not exist (equal to no sequence
\* of bytes), and for an uncompressed one (equal to no sequence of runs)
NoFile == <<-1>>
NoData == <<<<-1, 0>>>>

\* compress(input_file, output_file) on an object whose members are
\* old_symbols, old_total; data is the content of input_file, NoData when it
\* cannot be opened.  compression_ratio (a double) is not modelled, and
\* output_file is taken to be creatable.
compress(old_symbols, old_total, data) ==
    IF data = NoData
    THEN [status |-> "Cannot open input file", symbols |-> old_symbols,
          total_count |-> old_total, file |-> NoFile, stats |-> NoFile]
    ELSE
    LET original_size == Size(data)
        model == buildFrequencyTable(old_symbols, data)
        bytes == encodeData(data, model.symbols, model.total_count)
        compressed_size == CompressedSize(bytes, model.symbols)
    IN  [status      |-> "ok",
         symbols     |-> model.symbols,
         total_count |-> model.total_count,
         file        |-> MAGIC \o writeUint64(original_size)
                              \o writeUint32(Len(model.symbols))
                              \o WriteTable(model.symbols) \o bytes,
         stats       |-> [original_size   |-> original_size,
                          compressed_size |-> compressed_size,
                          space_saved     |-> original_size - compressed_size]]

\* sizeof(std::pair<unsigned char, uint64_t>), the element of counts
PairBytes == 16

\* std::vector<T>::reserve(n) on an empty vector of elements of size bytes,
\* with heap bytes (a uint64_t) for the allocator to give: no allocation for
\* n = 0, else one of n * size bytes, and std::bad_alloc (FALSE) when the
\* heap does not hold it
Reserves(n, size, heap) == n = 0 \/ Le(MulSmall(Wide(n), size), heap)

\* decompress(input_file, output_file); file is the content of input_file,
\* NoFile when it cannot be opened, and heap the bytes the allocator can
\* give.  output is the content written to output_file, NoData when the
\* call throws before creating it; output_file is taken to be creatable.
decompress(old_symbols, old_total, file, heap) ==
    LET fail(what) == [status |-> what, symbols |-> old_symbols,
                       total_count |-> old_total, output |-> NoData]
    IN
    IF file = NoFile THEN fail("Cannot open input file")
    ELSE IF Len(file) < 4 \/ SubSeq(file, 1, 4) # MAGIC THEN fail("Invalid file format")
    ELSE LET original_size == readUint64(file, 4)
         IN  IF ~original_size.ok THEN fail("Unexpected EOF")
    ELSE LET symbol_count == readUint32(file, original_size.pos)
         IN  IF ~symbol_count.ok THEN fail("Unexpected EOF")
    ELSE IF ~Reserves(symbol_count.v, PairBytes, heap) THEN fail("std::bad_alloc")
    ELSE LET table == ReadTable(file, symbol_count.pos, symbol_count.v, <<>>)
         IN  IF ~table.ok THEN fail("Unexpected EOF")
    ELSE LET bitstream == SubSeq(file, table.pos + 1, Len(file))
             model     == buildSymbolsFromCounts(old_symbols, table.counts)
         IN  IF ~Reserves(original_size.v, 1, heap)
             THEN [status |-> "std::bad_alloc", symbols |-> model.symbols,
                   total_count |-> model.total_count, output |-> NoData]
             ELSE [status      |-> "ok",
                   symbols     |-> model.symbols,
                   total_count |-> model.total_count,
                   output      |-> decodeData(bitstream, model.symbols,
                                              model.total_count, original_size.v)]


\* ------------------------------------------------------------------ state
VARIABLES
    symbols,      \* ArithmeticEncoder::symbols
    total_count,  \* ArithmeticEncoder::total_count
    input,        \* the data coded: input_file of the last successful compress
    carried,      \* the last call found a table in symbols and left another
    archive,      \* content of the output_file of the last successful compress
    call,         \* the last call made on the object
    status,       \* "ok", or what() of the exception the last call threw
    stats,        \* Statistics returned by the last compress
    given,        \* content of the input_file of decompress
    output,       \* content of the output_file of the last decompress
    counts,       \* the argument of the last buildSymbolsFromCounts
    pc,           \* position inside encodeData / decodeData
    enc,          \* locals of encodeData: low, high, bits_to_follow, writer
    dec,          \* locals of decodeData: low, high, value, reader, output
    bitstream,    \* writer.bytes after encodeData, read by decodeData
    path,         \* arms taken so far by the running renormalization loop
    encLog,       \* per symbol encoded: registers and arms when its loop broke
    decLog,       \* per symbol decoded: registers and arms when its loop broke
    exact,        \* no register computation so far lost bits to its width
    skipped,      \* some lookup so far found no entry
    cum           \* the last cum computed by decodeData

objVars   == <<symbols, total_count>>
callVars  == <<input, carried, archive, call, status, stats, given, output>>
coderVars == <<pc, enc, dec, bitstream, path, encLog, decLog, exact, skipped, cum>>
vars      == <<objVars, callVars, counts, coderVars>>

\* the runs of a sequence of bytes
RECURSIVE Runs(_)
Runs(q) ==
    IF q = <<>> THEN <<>>
    ELSE PushBack(Runs(SubSeq(q, 1, Len(q) - 1)), q[Len(q)], 1)

\* every byte sequence of at most MaxLen bytes over Bytes
ShortInputs == {Runs(q) : q \in UNION {[1..n -> Bytes] : n \in 0..MaxLen}}

\* The count the spec asks callers to stay under: for (;;) leaves
\* high - low above FIRST_QTR = 2^30, and a total_count above the range
\* leaves entries of the table without a value of their own.
Headroom == 2^30

\* long inputs: one byte value repeated, then one byte each of two others;
\* total_count is Headroom - 1 for the first, 1649140748 for the second
LongInputs ==
    { <<<<97, Headroom - 3>>, <<0, 1>>, <<255, 1>>>>,
      <<<<97, Headroom + 575398922>>, <<0, 1>>, <<255, 1>>>> }

Inputs == ShortInputs \cup LongInputs

\* compress on a newly constructed object, for every input
FreshRun == [data \in Inputs |-> compress(<<>>, 0, data)]

\* a newly constructed ArithmeticEncoder
NewObject == symbols = <<>> /\ total_count = 0

NoCall ==
    /\ input = NoData
    /\ carried = FALSE
    /\ archive = NoFile
    /\ call = "none"
    /\ status = "ok"
    /\ stats = NoFile
    /\ given = NoFile
    /\ output = NoData

IdleDecoder ==
    [low |-> Zero, high |-> MAX_RANGE, value |-> Zero,
     reader |-> NewReader, output |-> <<>>, i |-> 0]

CoderIdle ==
    /\ pc = "idle"
    /\ enc = NewEncoder
    /\ dec = IdleDecoder
    /\ bitstream = <<>>
    /\ path = <<>>
    /\ encLog = <<>>
    /\ decLog = <<>>
    /\ exact = TRUE
    /\ skipped = FALSE
    /\ cum = Zero

\* ----------------------------------------------- Spec: calls on one object
\* a without its last byte
CutTail(a) == SubSeq(a, 1, Len(a) - 1)

\* a with byte i of the magic overwritten by 'X'
BadMagic(a, i) == [a EXCEPT ![i] = 88]

\* a with its symbol count field overwritten by n
Declaring(a, n) == SubSeq(a, 1, 12) \o writeUint32(n) \o SubSeq(a, 17, Len(a))

\* The bytes the allocator can give a call: 4 GiB and 64 GiB.  The heap is
\* taken to hold the data of the call itself (input, output and table, all
\* below 2^31 bytes here); what a file declares can still exceed it.
Heaps == {<<0, 1, 0, 0>>, <<0, 16, 0, 0>>}

\* 0x7FFFFFFF
MostDeclared == 2^30 + (2^30 - 1)

\* symbol counts a damaged file can declare: the table of the first fits
\* every heap, those of the others only the larger one
DeclaredCounts == {2^24 - 1, 2^30, MostDeclared}

\* the inputs the calls of Spec give to compress: a path that cannot be
\* opened, the short inputs and, as the first call on the object, the long
\* ones
Offered ==
    {NoData} \cup ShortInputs \cup (IF call = "none" THEN LongInputs ELSE {})

\* the files the calls of Spec give to decompress: a path that cannot be
\* opened, the archive with a damaged magic, its sizes with a symbol count
\* of 2^31 - 1 and no table, the archive as written (the one of a long
\* input right after compress wrote it) and, for a short input, the archive
\* without its last byte
Tried(a, data) ==
    IF a = NoFile THEN {NoFile}
    ELSE {NoFile, BadMagic(a, 1), Declaring(SubSeq(a, 1, 16), MostDeclared)}
         \cup (IF data \in ShortInputs THEN {a, CutTail(a)}
               ELSE IF call = "compress" THEN {a} ELSE {})

Init == NewObject /\ NoCall /\ counts = <<>> /\ CoderIdle

\* encoder.compress(input_file, output_file)
Compress(data) ==
    \E r \in {compress(symbols, total_count, data)} :
        /\ symbols' = r.symbols
        /\ total_count' = r.total_count
        /\ input' = IF r.status = "ok" THEN data ELSE input
        /\ carried' = (symbols # <<>> /\ symbols # r.symbols)
        /\ archive' = IF r.status = "ok" THEN r.file ELSE archive
        /\ call' = "compress"
        /\ status' = r.status
        /\ stats' = r.stats
        /\ given' = NoFile
        /\ output' = NoData
        /\ UNCHANGED <<counts, coderVars>>

\* encoder.decompress(input_file, output_file)
Decompress(file, heap) ==
    \E r \in {decompress(symbols, total_count, file, heap)} :
        /\ symbols' = r.symbols
        /\ total_count' = r.total_count
        /\ call' = "decompress"
        /\ status' = r.status
        /\ stats' = NoFile
        /\ given' = file
        /\ output' = r.output
        /\ carried' = (symbols # <<>> /\ symbols # r.symbols)
        /\ UNCHANGED <<input, archive, counts, coderVars>>

Next ==
    \/ \E data \in Offered : Compress(data)
    \/ \E file \in Tried(archive, input), heap \in Heaps : Decompress(file, heap)

Spec == Init /\ [][Next]_vars

\* ------------------------- SpecFiles: decompress of every damaged archive
\* the proper prefixes of a
Prefixes(a) == {SubSeq(a, 1, n) : n \in 0..(Len(a) - 1)}

\* the archive as written, each proper prefix, each damaged magic, and the
\* archive and its sizes alone with a larger symbol count
Candidates(a) ==
    {a} \cup Prefixes(a) \cup {BadMagic(a, i) : i \in 1..4}
        \cup {Declaring(f, n) : f \in {a, SubSeq(a, 1, 16)}, n \in DeclaredCounts}

\* a new object is about to decompress a file derived from the archive that
\* compress wrote for some input
InitFiles ==
    /\ NewObject
    /\ \E data \in ShortInputs :
        /\ input = data
        /\ archive = FreshRun[data].file
        /\ given \in Candidates(FreshRun[data].file)
    /\ carried = FALSE
    /\ call = "none"
    /\ status = "ok"
    /\ stats = NoFile
    /\ output = NoData
    /\ counts = <<>>
    /\ CoderIdle

NextFiles == call = "none" /\ \E heap \in Heaps : Decompress(given, heap)

SpecFiles == InitFiles /\ [][NextFiles]_vars

\* ------------------------------ SpecModel: the two builders of the Model
\* (value, count) tables as decompress can read them from a file
Tables == UNION {[1..n -> Bytes \X (0..MaxCount)] : n \in 0..MaxTable}

\* the object holds the table of some earlier compress
InitModel ==
    /\ \E data \in Inputs :
        \E r \in {buildFrequencyTable(<<>>, data)} :
            symbols = r.symbols /\ total_count = r.total_count
    /\ NoCall
    /\ counts = <<>>
    /\ CoderIdle

BuildFrequencyTable(data) ==
    /\ call = "none"
    /\ \E r \in {buildFrequencyTable(symbols, data)} :
        /\ symbols' = r.symbols
        /\ total_count' = r.total_count
        /\ carried' = (symbols # <<>> /\ symbols # r.symbols)
    /\ input' = data
    /\ call' = "buildFrequencyTable"
    /\ UNCHANGED <<archive, status, stats, given, output, counts, coderVars>>

BuildSymbolsFromCounts(table) ==
    /\ call = "none"
    /\ \E r \in {buildSymbolsFromCounts(symbols, table)} :
        /\ symbols' = r.symbols
        /\ total_count' = r.total_count
        /\ carried' = (symbols # <<>> /\ symbols # r.symbols)
    /\ counts' = table
    /\ call' = "buildSymbolsFromCounts"
    /\ UNCHANGED <<input, archive, status, stats, given, output, coderVars>>

NextModel ==
    \/ \E data \in Inputs : BuildFrequencyTable(data)
    \/ \E table \in Tables : BuildSymbolsFromCounts(table)

SpecModel == InitModel /\ [][NextModel]_vars


\* ------------------ SpecCoder: encodeData and decodeData, step by step
InitCoder == NewObject /\ NoCall /\ counts = <<>> /\ CoderIdle

\* what is logged when for (;;) breaks: the number of symbols coded so far,
\* the registers, and the arms the loop took for the last of them
LogEntry(n, low, high, arms) == [n |-> n, low |-> low, high |-> high, path |-> arms]

\* the entry of the table for the next byte of data (0: none), and how many
\* of the next iterations of the encoder's loop are quiet ones for it
EncodeNext ==
    LET r  == RunAt(input, enc.i)
        it == FindByValue(symbols, r.byte)
    IN  [it |-> it,
         quiet |-> IF it = 0 THEN 0
                   ELSE QuietCount(enc.low, enc.high, symbols[it], total_count, r.left)]

\* how many of the next iterations of the decoder's loop are quiet ones for
\* one symbol
DecodeNext == DecodeQuietCount(dec, symbols, total_count, Size(input) - dec.i)

\* compress up to the call of encodeData
BeginEncode(data) ==
    /\ pc = "idle"
    /\ \E r \in {buildFrequencyTable(symbols, data)} :
        symbols' = r.symbols /\ total_count' = r.total_count
    /\ input' = data
    /\ enc' = NewEncoder
    /\ pc' = "encode"
    /\ UNCHANGED <<carried, archive, call, status, stats, given, output, counts,
                   dec, bitstream, path, encLog, decLog, exact, skipped, cum>>

\* encodeData: the lookup and the narrowing for the next byte of data, when
\* for (;;) will not break at once
EncodeSymbol ==
    /\ pc = "encode"
    /\ enc.i < Size(input)
    /\ \E nx \in {EncodeNext} :
        /\ nx.quiet = 0
        /\ IF nx.it = 0
           THEN /\ enc' = [enc EXCEPT !.i = enc.i + 1]
                /\ skipped' = TRUE
                /\ encLog' = Append(encLog, LogEntry(enc.i + 1, enc.low, enc.high, <<>>))
                /\ UNCHANGED <<pc, path, exact>>
           ELSE /\ enc' = EncodeNarrow([enc EXCEPT !.i = enc.i + 1], symbols[nx.it],
                                       total_count)
                /\ exact' = (exact /\ NarrowExact(enc.low, enc.high, symbols[nx.it],
                                                  total_count))
                /\ path' = <<>>
                /\ pc' = "encode_renorm"
                /\ UNCHANGED <<skipped, encLog>>
    /\ UNCHANGED <<objVars, callVars, counts, dec, bitstream, decLog, cum>>

\* encodeData: the quiet iterations there are for the equal bytes that come
\* next in data
EncodeQuietRun ==
    /\ pc = "encode"
    /\ enc.i < Size(input)
    /\ \E nx \in {EncodeNext} :
        /\ nx.quiet > 0
        /\ \E e \in {EncodeQuiet(enc, symbols[nx.it], total_count, nx.quiet)} :
            /\ enc' = e
            /\ encLog' = Append(encLog, LogEntry(e.i, e.low, e.high, <<>>))
    /\ UNCHANGED <<objVars, callVars, counts, pc, dec, bitstream, path, decLog,
                   exact, skipped, cum>>

\* encodeData: one iteration of for (;;) through the E1, E2 or E3 arm
EncodeRenormalize ==
    /\ pc = "encode_renorm"
    /\ \E b \in {Branch(enc.low, enc.high)} :
        /\ b # "break"
        /\ enc' = EncodeRenormStep(enc)
        /\ path' = Append(path, b)
        /\ exact' = (exact /\ RenormExact(enc.low, b) /\ RenormExact(enc.high, b))
    /\ UNCHANGED <<objVars, callVars, counts, pc, dec, bitstream, encLog, decLog,
                   skipped, cum>>

\* encodeData: for (;;) breaks
EncodeBreak ==
    /\ pc = "encode_renorm"
    /\ Branch(enc.low, enc.high) = "break"
    /\ encLog' = Append(encLog, LogEntry(enc.i, enc.low, enc.high, path))
    /\ pc' = "encode"
    /\ UNCHANGED <<objVars, callVars, counts, enc, dec, bitstream, path, decLog,
                   exact, skipped, cum>>

\* encodeData: the termination bits and the flush, after the last byte
EncodeTerminate ==
    /\ pc = "encode"
    /\ enc.i >= Size(input)
    /\ \E w \in {EncodeFinish(enc)} :
        enc' = [enc EXCEPT !.writer = w] /\ bitstream' = w.bytes
    /\ pc' = "encoded"
    /\ UNCHANGED <<objVars, callVars, counts, dec, path, encLog, decLog, exact,
                   skipped, cum>>

\* decompress up to the first 32 bits of decodeData: the table is rebuilt
\* from the counts the file carries
BeginDecode ==
    /\ pc = "encoded"
    /\ \E r \in {buildSymbolsFromCounts(symbols,
                    ReadTable(WriteTable(symbols), 0, Len(symbols), <<>>).counts)} :
        symbols' = r.symbols /\ total_count' = r.total_count
    /\ dec' = NewDecoder(bitstream)
    /\ pc' = "decode"
    /\ UNCHANGED <<callVars, counts, enc, bitstream, path, encLog, decLog, exact,
                   skipped, cum>>

\* decodeData: cum, decodeSymbol, push_back, the lookup and the narrowing,
\* when for (;;) will not break at once
\* (original_size, read from the header, is the size of the input)
DecodeSymbol ==
    /\ pc = "decode"
    /\ dec.i < Size(input)
    /\ DecodeNext = 0
    /\ \E c \in {Cum(dec.low, dec.high, dec.value, total_count)} :
       \E it \in {FindByValue(symbols, decodeSymbol(symbols, c))} :
        /\ cum' = c
        /\ dec' = DecodeNarrow(dec, symbols, total_count)
        /\ skipped' = (skipped \/ FindByCumulative(symbols, c) = 0 \/ it = 0)
        /\ IF it = 0
           THEN /\ decLog' = Append(decLog, LogEntry(dec.i + 1, dec.low, dec.high, <<>>))
                /\ UNCHANGED <<pc, path, exact>>
           ELSE /\ exact' = (/\ exact
                             /\ Le(dec.low, dec.value)
                             /\ NarrowExact(dec.low, dec.high, symbols[it], total_count))
                /\ path' = <<>>
                /\ pc' = "decode_renorm"
                /\ UNCHANGED decLog
    /\ UNCHANGED <<objVars, callVars, counts, enc, bitstream, encLog>>

\* decodeData: the quiet iterations there are for one symbol; cum is the one
\* of the last of them
DecodeQuietRun ==
    /\ pc = "decode"
    /\ dec.i < Size(input)
    /\ \E k \in {DecodeNext} :
        /\ k > 0
        /\ \E d \in {DecodeQuiet(dec, symbols, total_count, k)} :
            /\ dec' = d
            /\ decLog' = Append(decLog, LogEntry(d.i, d.low, d.high, <<>>))
        /\ \E c \in {Cum(dec.low, dec.high, dec.value, total_count)} :
            /\ skipped' = (skipped \/ FindByCumulative(symbols, c) = 0)
            /\ \E m \in {QuietMove(dec.low, dec.high,
                                   symbols[FindByCumulative(symbols, c)],
                                   total_count, k - 1)} :
                cum' = Cum(m.low, m.high, dec.value, total_count)
    /\ UNCHANGED <<objVars, callVars, counts, pc, enc, bitstream, path, encLog, exact>>

\* decodeData: one iteration of for (;;) through the E1, E2 or E3 arm
DecodeRenormalize ==
    /\ pc = "decode_renorm"
    /\ \E b \in {Branch(dec.low, dec.high)} :
        /\ b # "break"
        /\ dec' = DecodeRenormStep(dec, bitstream)
        /\ path' = Append(path, b)
        /\ exact' = (/\ exact
                     /\ RenormExact(dec.low, b)
                     /\ RenormExact(dec.high, b)
                     /\ RenormExact(dec.value, b))
    /\ UNCHANGED <<objVars, callVars, counts, pc, enc, bitstream, encLog, decLog,
                   skipped, cum>>

\* decodeData: for (;;) breaks
DecodeBreak ==
    /\ pc = "decode_renorm"
    /\ Branch(dec.low, dec.high) = "break"
    /\ decLog' = Append(decLog, LogEntry(dec.i, dec.low, dec.high, path))
    /\ pc' = "decode"
    /\ UNCHANGED <<objVars, callVars, counts, enc, dec, bitstream, path, encLog,
                   exact, skipped, cum>>

\* decodeData returns
DecodeDone ==
    /\ pc = "decode"
    /\ dec.i >= Size(input)
    /\ pc' = "done"
    /\ UNCHANGED <<objVars, callVars, counts, enc, dec, bitstream, path, encLog,
                   decLog, exact, skipped, cum>>

NextCoder ==
    \/ \E data \in Inputs : BeginEncode(data)
    \/ EncodeSymbol
    \/ EncodeQuietRun
    \/ EncodeRenormalize
    \/ EncodeBreak
    \/ EncodeTerminate
    \/ BeginDecode
    \/ DecodeSymbol
    \/ DecodeQuietRun
    \/ DecodeRenormalize
    \/ DecodeBreak
    \/ DecodeDone

\* the program is one thread: a loop that can take its next iteration (or its
\* break) takes it
SpecCoder ==
    /\ InitCoder
    /\ [][NextCoder]_vars
    /\ WF_vars(EncodeRenormalize \/ EncodeBreak)
    /\ WF_vars(DecodeRenormalize \/ DecodeBreak)

\* ------------------------------------------------------------------ claims
\* the number a big-endian field holds
RECURSIVE FieldValue(_)
FieldValue(bytes) ==
    IF bytes = <<>> THEN 0
    ELSE 256 * FieldValue(SubSeq(bytes, 1, Len(bytes) - 1)) + bytes[Len(bytes)]

\* the byte values of data, given as runs
DistinctValues(data) == {data[i][1] : i \in DOMAIN data}

\* out holds the first bytes of data (both as runs)
Leads(out, data) ==
    \/ out = <<>>
    \/ /\ Len(out) <= Len(data)
       /\ \A j \in 1..(Len(out) - 1) : out[j] = data[j]
       /\ out[Len(out)][1] = data[Len(out)][1]
       /\ out[Len(out)][2] <= data[Len(out)][2]

HasMagic(f) == Len(f) >= 4 /\ SubSeq(f, 1, 4) = MAGIC

\* the sizes, the symbol count and every declared table entry are in f
TablePresent(f) ==
    /\ Len(f) >= 16
    /\ (Len(f) - 16) \div 9 >= FieldValue(SubSeq(f, 13, 16))

\* C1 as stated: decompress of the file compress wrote for the input
\* succeeds and writes exactly the input, for every input.
RoundTrip ==
    (call = "decompress" /\ given # NoFile /\ given = archive)
        => (status = "ok" /\ output = input)

\* C1 as amended: decompress of the file compress wrote for an input of
\* fewer than 2^30 bytes succeeds and writes exactly the input.
RoundTripHeadroom ==
    (call = "decompress" /\ given # NoFile /\ given = archive
        /\ Size(input) < Headroom)
        => (status = "ok" /\ output = input)

RoundTripHeadroomWitness ==
    /\ call = "decompress"
    /\ given = archive
    /\ status = "ok"
    /\ output = input
    /\ Size(input) = Headroom - 1
    /\ Cardinality(DistinctValues(input)) = 3

\* C2 as stated: a file without the magic, or ending before its sizes,
\* symbol count and declared table entries are all present, makes decompress
\* throw ("Invalid file format" for the magic, "Unexpected EOF" otherwise)
\* and write no output.
CorruptionRejected ==
    (call = "decompress" /\ given # NoFile) =>
        /\ ~HasMagic(given) => (status = "Invalid file format" /\ output = NoData)
        /\ (HasMagic(given) /\ ~TablePresent(given)) =>
               (status = "Unexpected EOF" /\ output = NoData)

\* the given file is the archive with trailing bitstream bytes removed:
\* magic, sizes and table are complete
TruncatedBitstream ==
    /\ given # NoFile
    /\ HasMagic(given)
    /\ TablePresent(given)
    /\ Len(given) < Len(archive)
    /\ given = SubSeq(archive, 1, Len(given))

\* C3 as stated: decompress of an archive whose bitstream is truncated fails
\* with "Unexpected EOF".
TruncationRejected ==
    (call = "decompress" /\ TruncatedBitstream) => status = "Unexpected EOF"

\* C3 as amended: decompress of an archive whose bitstream is truncated does
\* not fail; the missing bits read as 0 and it writes original_size bytes.
TruncationDecodes ==
    (call = "decompress" /\ TruncatedBitstream) =>
        (status = "ok" /\ output # NoData /\ Size(output) = Size(input))

TruncationDecodesWitness ==
    /\ call = "decompress"
    /\ TruncatedBitstream
    /\ status = "ok"
    /\ Size(output) = MaxLen
    /\ output # input

\* C4: the file compress writes starts with the magic, holds the input's
\* length and its number of distinct byte values in the two size fields, and
\* is exactly compressed_size bytes long: a 16-byte header, 9 bytes per
\* symbol and at least one byte of bitstream.
HeaderFidelity ==
    (call = "compress" /\ status = "ok") =>
        /\ SubSeq(archive, 1, 4) = MAGIC
        /\ FieldValue(SubSeq(archive, 5, 12)) = Size(input)
        /\ FieldValue(SubSeq(archive, 13, 16)) = Cardinality(DistinctValues(input))
        /\ stats.original_size = Size(input)
        /\ stats.compressed_size = Len(archive)
        /\ Len(archive) > 16 + 9 * Cardinality(DistinctValues(input))

HeaderFidelityWitness ==
    /\ call = "compress"
    /\ status = "ok"
    /\ Size(input) = MaxLen
    /\ Cardinality(DistinctValues(input)) = 2
    /\ stats.compressed_size = Len(archive)

RECURSIVE SumCounts(_)
SumCounts(syms) ==
    IF syms = <<>> THEN 0 ELSE Head(syms).count + SumCounts(Tail(syms))

\* C5: in a built Model every entry has high - low = count, the first low
\* is 0, each low is the previous high, the last high is total_count, which
\* is the sum of the counts; built from data, total_count is the data's
\* length, every count is at least 1 and values strictly ascend.
ModelInvariant ==
    /\ \A k \in DOMAIN symbols : symbols[k].high - symbols[k].low = symbols[k].count
    /\ symbols # <<>> => symbols[1].low = 0
    /\ \A k \in 2..Len(symbols) : symbols[k].low = symbols[k - 1].high
    /\ symbols # <<>> => symbols[Len(symbols)].high = total_count
    /\ total_count = SumCounts(symbols)
    /\ call = "buildFrequencyTable" =>
        /\ total_count = Size(input)
        /\ \A k \in DOMAIN symbols : symbols[k].count >= 1
        /\ \A k \in 2..Len(symbols) : symbols[k - 1].value < symbols[k].value
    /\ call = "buildSymbolsFromCounts" =>
        /\ Len(symbols) = Len(counts)
        /\ \A k \in DOMAIN counts :
            symbols[k].value = counts[k][1] /\ symbols[k].count = counts[k][2]

ModelInvariantWitness ==
    /\ call = "buildSymbolsFromCounts"
    /\ carried
    /\ Len(counts) = MaxTable
    /\ counts[1][1] > counts[2][1]
    /\ counts[1][2] = MaxCount
    /\ total_count > MaxCount

\* C6: what compress writes for an input is what a newly constructed object
\* writes for it, whatever calls the object served before.
Deterministic ==
    (call = "compress" /\ status = "ok") => archive = FreshRun[input].file

DeterministicWitness ==
    /\ call = "compress"
    /\ status = "ok"
    /\ carried
    /\ input # <<>>
    /\ archive = FreshRun[input].file


Encoding == pc \in {"encode", "encode_renorm", "encoded"}
Decoding == pc \in {"decode", "decode_renorm", "done"}

\* C7: with total_count below 2^30, at every point of encodeData and
\* decodeData low <= high, no register computation wrapped, and in
\* decodeData low <= value <= high.
IntervalInvariant ==
    total_count < Headroom =>
        /\ exact
        /\ Encoding => Le(enc.low, enc.high)
        /\ Decoding => /\ Le(dec.low, dec.high)
                       /\ Le(dec.low, dec.value)
                       /\ Le(dec.value, dec.high)

IntervalInvariantWitness ==
    /\ pc = "decode_renorm"
    /\ total_count < Headroom
    /\ Len(path) >= 2
    /\ dec.i = MaxLen
    /\ Lt(Zero, dec.low)
    /\ Lt(dec.low, dec.value)
    /\ Lt(dec.value, dec.high)

\* the interval a renormalization loop leaves
Renormalized(low, high) ==
    /\ Lt(low, HALF)
    /\ Le(HALF, high)
    /\ ~(Le(FIRST_QTR, low) /\ Lt(high, THIRD_QTR))
    /\ Lt(FIRST_QTR, SubW(high, low))

\* C8: every renormalization loop terminates, and initially and whenever a
\* loop has exited low < HALF <= high and not (low >= FIRST_QTR and
\* high < THIRD_QTR), so high - low > FIRST_QTR.
RenormPostcondition ==
    /\ [](pc \in {"encode", "encoded"} => Renormalized(enc.low, enc.high))
    /\ [](pc \in {"decode", "done"} => Renormalized(dec.low, dec.high))
    /\ (pc = "encode_renorm") ~> (pc = "encode")
    /\ (pc = "decode_renorm") ~> (pc = "decode")

RenormPostconditionWitness ==
    /\ pc = "encode"
    /\ encLog # <<>>
    /\ \E k \in DOMAIN encLog[Len(encLog)].path : encLog[Len(encLog)].path[k] = "E3"
    /\ Renormalized(enc.low, enc.high)

\* the decoder's log, registers and output so far are the encoder's
InStep ==
    /\ Len(decLog) <= Len(encLog)
    /\ \A k \in DOMAIN decLog : decLog[k] = encLog[k]
    /\ dec.i <= Size(input)
    /\ Size(dec.output) = dec.i
    /\ Leads(dec.output, input)
    /\ pc = "done" => (decLog = encLog /\ dec.output = input)

\* C9 as stated: after its k-th symbol the decoder holds the registers the
\* encoder held after its k-th symbol, has taken the same arms, and has
\* emitted the k-th byte of the data, for every data.
Lockstep == Decoding => InStep

\* C9 as amended: the same, for data of fewer than 2^30 bytes.
LockstepHeadroom == (Decoding /\ Size(input) < Headroom) => InStep

LockstepHeadroomWitness ==
    /\ pc = "done"
    /\ Size(input) = Headroom - 1
    /\ Len(decLog) >= 3
    /\ decLog = encLog
    /\ \E k \in DOMAIN decLog : Len(decLog[k].path) >= 2
    /\ dec.output = input

\* C10: no lookup takes a silent-skip path: the encoder finds every byte,
\* every cum is below total_count, decodeSymbol returns from an entry and
\* the decoder's lookup by value finds it.
NoSilentSkip ==
    /\ ~skipped
    /\ (Decoding /\ dec.output # <<>>) => Lt(cum, Wide(total_count))

NoSilentSkipWitness ==
    /\ pc = "done"
    /\ ~skipped
    /\ dec.i = MaxLen
    /\ Cardinality(DistinctValues(dec.output)) >= 2
    /\ Lt(Zero, cum)

====
